---- MODULE Spec2Model ----
(***************************************************************************)
(* Model of the native ("raw") Python output module of plaso               *)
(* (plaso/output/rawpy.py): NativePythonEventFormattingHelper              *)
(* .GetFieldValues collects the field values of one event, and             *)
(* NativePythonOutputModule.WriteFieldValues renders them as a report.     *)
(*                                                                         *)
(* Python values are records [kind, n, s, b, items]:                       *)
(*   kind = "int"      n is the integer                                    *)
(*   kind = "str"      s is the text                                       *)
(*   kind = "bytes"    b is the sequence of byte values                    *)
(*   kind = "list"     items is the sequence of elements; an element is    *)
(*                     the token DateTimeElement or a text                 *)
(*   kind = "identifier"  an AttributeContainerIdentifier, s its text      *)
(*   kind = "datetime"    a dfdatetime DateTimeValues, n its timestamp     *)
(*   kind = "pathspec"    a path specification, items the characters of    *)
(*                        its comparable string                            *)
(*   kind = "none"     None                                                *)
(* A Python dict is a sequence of <<key, value>> pairs with distinct keys, *)
(* in insertion order.                                                     *)
(***************************************************************************)
EXTENDS Integers, Sequences, FiniteSets, TLC

\* Largest number of attribute pairs EventData and EventDataStream yield
\* together for one event.
MaxAttributes == 2

\* Largest number of attribute pairs EventData and EventDataStream yield
\* together for one event when the order of the pairs is what is examined.
MaxOrderAttributes == 3

---------------------------------------------------------------------------
\* Python values

IntValue(i) == [kind |-> "int", n |-> i, s |-> "", b |-> <<>>, items |-> <<>>]

StrValue(t) == [kind |-> "str", n |-> 0, s |-> t, b |-> <<>>, items |-> <<>>]

BytesValue(bs) == [kind |-> "bytes", n |-> 0, s |-> "", b |-> bs, items |-> <<>>]

ListValue(es) == [kind |-> "list", n |-> 0, s |-> "", b |-> <<>>, items |-> es]

IdentifierValue(t) ==
  [kind |-> "identifier", n |-> 0, s |-> t, b |-> <<>>, items |-> <<>>]

DateTimeValue(t) ==
  [kind |-> "datetime", n |-> t, s |-> "", b |-> <<>>, items |-> <<>>]

PathSpecValue(chars) ==
  [kind |-> "pathspec", n |-> 0, s |-> "", b |-> <<>>, items |-> chars]

NoneValue == [kind |-> "none", n |-> 0, s |-> "", b |-> <<>>, items |-> <<>>]

\* The list element that is a dfdatetime DateTimeValues instance.
DateTimeElement == "<DateTimeValues>"

\* Python truth value of a value (bool(value)).
Truthy(v) ==
  CASE v.kind = "none" -> FALSE
    [] v.kind = "int" -> v.n # 0
    [] v.kind = "str" -> v.s # ""
    [] v.kind = "bytes" -> v.b # <<>>
    [] v.kind = "list" -> v.items # <<>>
    [] OTHER -> TRUE

---------------------------------------------------------------------------
\* Ordering of texts and names (Python compares str by code point)

\* The texts of the model in ascending code point order.
TextOrder ==
  << "", "_event_identifier", "_event_tag_labels", "_timestamp", "a", "b",
     "display_name", "filename", "inode", "name_attr", "ok", "path_spec",
     "size", "x" >>

TextRank(t) == CHOOSE i \in 1..Len(TextOrder) : TextOrder[i] = t

TextLess(t1, t2) == TextRank(t1) < TextRank(t2)

RECURSIVE BytesLess(_, _)
\* bytes.__lt__: lexicographic order of the byte values.
BytesLess(b1, b2) ==
  IF b2 = <<>> THEN FALSE
  ELSE IF b1 = <<>> THEN TRUE
  ELSE IF Head(b1) # Head(b2) THEN Head(b1) < Head(b2)
  ELSE BytesLess(Tail(b1), Tail(b2))

RECURSIVE ListLess(_, _)
\* list.__lt__: the first pair of elements that differ decides; "E" when
\* that pair cannot be ordered (a text against a DateTimeValues).
ListLess(l1, l2) ==
  IF l2 = <<>> THEN "F"
  ELSE IF l1 = <<>> THEN "T"
  ELSE IF Head(l1) = Head(l2) THEN ListLess(Tail(l1), Tail(l2))
  ELSE IF Head(l1) = DateTimeElement \/ Head(l2) = DateTimeElement THEN "E"
  ELSE IF TextLess(Head(l1), Head(l2)) THEN "T" ELSE "F"

\* v1 < v2 for two values that are not equal: "T", "F", or "E" when Python
\* raises (TypeError for unorderable types, ValueError from DateTimeValues).
ValueLess(v1, v2) ==
  CASE v1.kind = "int" /\ v2.kind = "int" ->
         IF v1.n < v2.n THEN "T" ELSE "F"
    [] v1.kind = "str" /\ v2.kind = "str" ->
         IF TextLess(v1.s, v2.s) THEN "T" ELSE "F"
    [] v1.kind = "bytes" /\ v2.kind = "bytes" ->
         IF BytesLess(v1.b, v2.b) THEN "T" ELSE "F"
    [] v1.kind = "list" /\ v2.kind = "list" -> ListLess(v1.items, v2.items)
    [] v1.kind = "datetime" /\ v2.kind = "datetime" ->
         IF v1.n < v2.n THEN "T" ELSE "F"
    [] OTHER -> "E"

\* v1 == v2 for the values of two pairs that sorted() compares.  The pairs
\* come from different containers, so the values are different objects:
\* AttributeContainerIdentifier defines no __eq__ and two identifier
\* objects are never equal, whatever their text; the other kinds compare
\* by content.
ValueEqual(v1, v2) == v1.kind # "identifier" /\ v1 = v2

\* tuple.__lt__ on (name, value) pairs: the name decides when the names
\* differ, equal pairs are not less, otherwise the values are compared.
TupleLess(p1, p2) ==
  IF p1[1] # p2[1] THEN (IF TextLess(p1[1], p2[1]) THEN "T" ELSE "F")
  ELSE IF ValueEqual(p1[2], p2[2]) THEN "F"
  ELSE ValueLess(p1[2], p2[2])

---------------------------------------------------------------------------
\* sorted(): CPython's list sort for fewer than 64 elements, which is
\* count_run followed by a binary insertion sort.  The result is
\* [ok |-> FALSE] when a comparison raises.

RECURSIVE CountRunFrom(_, _, _)
\* Length of the run s[1..i-1] extended from s[i]; -1 when a comparison
\* raises.
CountRunFrom(s, i, descending) ==
  IF i > Len(s) THEN i - 1
  ELSE LET c == TupleLess(s[i], s[i - 1])
       IN IF c = "E" THEN -1
          ELSE IF (c = "T") = descending
               THEN CountRunFrom(s, i + 1, descending)
               ELSE i - 1

Reverse(s) == [i \in 1..Len(s) |-> s[Len(s) + 1 - i]]

RECURSIVE BinarySearch(_, _, _, _)
\* Position in the sorted prefix s[l..r-1] where pivot is inserted; -1
\* when a comparison raises.
BinarySearch(s, pivot, l, r) ==
  IF l >= r THEN l
  ELSE LET p == l + ((r - l) \div 2)
           c == TupleLess(pivot, s[p])
       IN IF c = "E" THEN -1
          ELSE IF c = "T" THEN BinarySearch(s, pivot, l, p)
               ELSE BinarySearch(s, pivot, p + 1, r)

RECURSIVE BinarySort(_, _)
\* Inserts s[start], s[start+1], ... into the sorted prefix s[1..start-1].
BinarySort(s, start) ==
  IF start > Len(s) THEN [ok |-> TRUE, list |-> s]
  ELSE LET pivot == s[start]
           l == BinarySearch(s, pivot, 1, start)
       IN IF l = -1 THEN [ok |-> FALSE, list |-> <<>>]
          ELSE BinarySort(
                 SubSeq(s, 1, l - 1) \o <<pivot>> \o SubSeq(s, l, start - 1)
                   \o SubSeq(s, start + 1, Len(s)),
                 start + 1)

PySorted(s) ==
  IF Len(s) < 2 THEN [ok |-> TRUE, list |-> s]
  ELSE LET first == TupleLess(s[2], s[1])
           n == IF first = "E" THEN -1 ELSE CountRunFrom(s, 3, first = "T")
       IN IF n = -1 THEN [ok |-> FALSE, list |-> <<>>]
          ELSE LET run == IF first = "T"
                          THEN Reverse(SubSeq(s, 1, n)) \o SubSeq(s, n + 1, Len(s))
                          ELSE s
               IN BinarySort(run, n + 1)

---------------------------------------------------------------------------
\* Conversions to text

\* The characters of the ASCII bytes the model uses.
Chr(byte) ==
  CASE byte = 47 -> "/"
    [] byte = 97 -> "a"
    [] byte = 107 -> "k"
    [] byte = 111 -> "o"
    [] OTHER -> "?"

\* U+FFFD, the character 'replace' decoding puts for an invalid byte.
ReplacementCharacter == "<U+FFFD>"

\* The byte values of the model are ASCII or bytes that occur in no UTF-8
\* sequence (0xC0, 0xC1, 0xF5..0xFF); such a sequence is valid UTF-8 iff
\* all of it is ASCII.
IsValidUTF8(bs) == \A i \in 1..Len(bs) : bs[i] < 128

RECURSIVE DecodeUTF8Replace(_)
\* bytes.decode('utf-8', 'replace') on ASCII and never-valid bytes: an
\* ASCII byte is its character, a never-valid byte one U+FFFD.
DecodeUTF8Replace(bs) ==
  IF bs = <<>> THEN ""
  ELSE (IF Head(bs) < 128 THEN Chr(Head(bs)) ELSE ReplacementCharacter)
         \o DecodeUTF8Replace(Tail(bs))

RECURSIVE Repeat(_, _)
\* text * count
Repeat(text, count) ==
  IF count <= 0 THEN "" ELSE text \o Repeat(text, count - 1)

\* '{0:0Nd}'.format(i): the sign of a negative i, then its digits with
\* zeros in front of them up to width characters in all; never truncated.
ZeroPad(i, width) ==
  LET sign == IF i < 0 THEN "-" ELSE ""
      digits == ToString(IF i < 0 THEN -i ELSE i)
  IN sign \o Repeat("0", width - Len(sign) - Len(digits)) \o digits

\* Year, month and day of a number of days since 1970-01-01.
DateOfDays(days) ==
  LET z == days + 719468
      era == z \div 146097
      doe == z - era * 146097
      yoe == (doe - doe \div 1460 + doe \div 36524 - doe \div 146096) \div 365
      doy == doe - (365 * yoe + yoe \div 4 - yoe \div 100)
      mp == (5 * doy + 2) \div 153
      d == doy - (153 * mp + 2) \div 5 + 1
      m == IF mp < 10 THEN mp + 3 ELSE mp - 9
      y == yoe + era * 400 + (IF m <= 2 THEN 1 ELSE 0)
  IN <<y, m, d>>

\* PosixTimeInMicroseconds(timestamp).CopyToDateTimeStringISO8601()
CopyToDateTimeStringISO8601(timestamp) ==
  LET seconds == timestamp \div 1000000
      micro == timestamp % 1000000
      date == DateOfDays(seconds \div 86400)
      rest == seconds % 86400
  IN ZeroPad(date[1], 4) \o "-" \o ZeroPad(date[2], 2) \o "-"
       \o ZeroPad(date[3], 2) \o "T" \o ZeroPad(rest \div 3600, 2) \o ":"
       \o ZeroPad((rest % 3600) \div 60, 2) \o ":" \o ZeroPad(rest % 60, 2)
       \o "." \o ZeroPad(micro, 6) \o "+00:00"

\* AttributeContainerIdentifier.CopyToString(): "<name>.<sequence number>".
CopyToString(identifier) ==
  identifier.name \o "." \o ToString(identifier.sequence_number)

RECURSIVE ReprItems(_)
\* The elements of a list as repr() writes them, comma separated.
ReprItems(es) ==
  IF es = <<>> THEN ""
  ELSE (IF Head(es) = DateTimeElement THEN Head(es) ELSE "'" \o Head(es) \o "'")
         \o (IF Len(es) > 1 THEN ", " ELSE "") \o ReprItems(Tail(es))

\* str(value), the '!s' conversion of str.format.
Str(v) ==
  CASE v.kind = "int" -> ToString(v.n)
    [] v.kind = "str" -> v.s
    [] v.kind = "list" -> "[" \o ReprItems(v.items) \o "]"
    [] v.kind = "identifier" -> "<AttributeContainerIdentifier " \o v.s \o ">"
    [] v.kind = "datetime" -> "<DateTimeValues " \o ToString(v.n) \o ">"
    [] v.kind = "pathspec" -> "<PathSpec>"
    [] v.kind = "none" -> "None"
    [] OTHER -> "b'...'"

---------------------------------------------------------------------------
\* dict operations; a dict is a sequence of <<key, value>> with distinct keys

DictKeys(d) == {d[i][1] : i \in 1..Len(d)}

DictHas(d, key) == key \in DictKeys(d)

DictIndex(d, key) == CHOOSE i \in 1..Len(d) : d[i][1] = key

\* d[key]
DictGet(d, key) == d[DictIndex(d, key)][2]

\* d.get(key, None)
DictGetOrNone(d, key) == IF DictHas(d, key) THEN DictGet(d, key) ELSE NoneValue

\* d[key] = value: an existing key keeps its place, a new key goes last.
DictSet(d, key, value) ==
  IF DictHas(d, key)
  THEN [d EXCEPT ![DictIndex(d, key)] = <<key, value>>]
  ELSE Append(d, <<key, value>>)

---------------------------------------------------------------------------
\* NativePythonEventFormattingHelper.GetFieldValues

\* The names GetFieldValues resolves with GetFormattedField when no
\* attribute set them, in the order of the three if statements.
FormattedFieldNames == <<"display_name", "filename", "inode">>

\* IsIgnoredValue without the test of a list's first element.
IsIgnoredValue_ScalarOnly(v) == v.kind \in {"identifier", "datetime"}

\* isinstance(attribute_value, (AttributeContainerIdentifier,
\* DateTimeValues)), or a non-empty list whose first element is a
\* DateTimeValues: the two tests that skip an attribute.
IsIgnoredValue(v) ==
  \/ v.kind \in {"identifier", "datetime"}
  \/ v.kind = "list" /\ v.items # <<>> /\ v.items[1] = DateTimeElement

\* event_attributes: the pairs of event_data, then those of
\* event_data_stream if there is one.
EventAttributes(event_data, event_data_stream) ==
  IF event_data_stream.present
  THEN event_data.attributes \o event_data_stream.attributes
  ELSE event_data.attributes

\* SortedEventAttributes without the sort: the pairs as the containers
\* yielded them.
SortedEventAttributes_Unsorted(event_attributes) ==
  [ok |-> TRUE, list |-> event_attributes]

\* sorted(event_attributes)
SortedEventAttributes(event_attributes) == PySorted(event_attributes)

\* The bytes branch of the loop: the decoded value and the warning logged.
DecodeBytesValue(name, v, data_type) ==
  LET text == DecodeUTF8Replace(v.b)
  IN [value |-> StrValue(text),
      warnings |-> << [attribute_name |-> name, data_type |-> data_type,
                       value |-> text] >>]

\* One pass of the loop body over acc = [field_values, warnings].
CollectAttribute(acc, pair, data_type) ==
  LET name == pair[1]
      v == pair[2]
  IN IF IsIgnoredValue(v) THEN acc
     ELSE IF v.kind = "bytes"
     THEN LET d == DecodeBytesValue(name, v, data_type)
          IN [field_values |-> DictSet(acc.field_values, name, d.value),
              warnings |-> acc.warnings \o d.warnings]
     ELSE [field_values |-> DictSet(acc.field_values, name, v),
           warnings |-> acc.warnings]

RECURSIVE CollectAttributes(_, _, _)
\* The for loop over the sorted pairs.
CollectAttributes(acc, pairs, data_type) ==
  IF pairs = <<>> THEN acc
  ELSE CollectAttributes(CollectAttribute(acc, Head(pairs), data_type),
                         Tail(pairs), data_type)

\* ResolveField without the test 'name not in field_values'.
ResolveField_Always(acc, name, formatted_fields) ==
  [field_values |->
     DictSet(acc.field_values, name, StrValue(formatted_fields[name])),
   formatted |-> Append(acc.formatted, name)]

\* ResolveField that stores what GetFormattedField returned only when it is
\* not empty.
ResolveField_NonEmptyOnly(acc, name, formatted_fields) ==
  IF DictHas(acc.field_values, name) THEN acc
  ELSE [field_values |->
          IF formatted_fields[name] = "" THEN acc.field_values
          ELSE DictSet(acc.field_values, name,
                       StrValue(formatted_fields[name])),
        formatted |-> Append(acc.formatted, name)]

\* if name not in field_values: field_values[name] = GetFormattedField(...)
\* over acc = [field_values, formatted], formatted the names requested.
ResolveField(acc, name, formatted_fields) ==
  IF DictHas(acc.field_values, name) THEN acc
  ELSE [field_values |->
          DictSet(acc.field_values, name, StrValue(formatted_fields[name])),
        formatted |-> Append(acc.formatted, name)]

RECURSIVE ResolveFields(_, _, _)
ResolveFields(acc, names, formatted_fields) ==
  IF names = <<>> THEN acc
  ELSE ResolveFields(ResolveField(acc, Head(names), formatted_fields),
                     Tail(names), formatted_fields)

\* if event_tag: field_values['_event_tag_labels'] = event_tag.labels
SetEventTagLabels(field_values, event_tag) ==
  IF event_tag.present
  THEN DictSet(field_values, "_event_tag_labels", ListValue(event_tag.labels))
  ELSE field_values

\* The whole method: [raised, field_values, warnings, formatted].
GetFieldValuesResult(event, event_data, event_data_stream, event_tag, formatted_fields) ==
  LET seed == << <<"_event_identifier",
                   StrValue(CopyToString(event.identifier))>>,
                 <<"_timestamp",
                   StrValue(CopyToDateTimeStringISO8601(event.timestamp))>> >>
      sorted == SortedEventAttributes(
                  EventAttributes(event_data, event_data_stream))
  IN IF ~sorted.ok
     THEN [raised |-> TRUE, field_values |-> <<>>, warnings |-> <<>>,
           formatted |-> <<>>]
     ELSE LET collected == CollectAttributes(
                             [field_values |-> seed, warnings |-> <<>>],
                             sorted.list, event_data.data_type)
              resolved == ResolveFields(
                            [field_values |-> collected.field_values,
                             formatted |-> <<>>],
                            FormattedFieldNames, formatted_fields)
          IN [raised |-> FALSE,
              field_values |-> SetEventTagLabels(resolved.field_values, event_tag),
              warnings |-> collected.warnings,
              formatted |-> resolved.formatted]

---------------------------------------------------------------------------
\* NativePythonOutputModule.WriteFieldValues

\* The names the loop of WriteFieldValues passes over.
StructuralKeys ==
  {"_event_identifier", "_event_tag_labels", "_timestamp", "path_spec"}

RECURSIVE CharactersFrom(_, _)
\* The characters of t from position i on; the text that stands for
\* U+FFFD is one character.
CharactersFrom(t, i) ==
  IF i > Len(t) THEN <<>>
  ELSE LET j == i + Len(ReplacementCharacter) - 1
       IN IF j <= Len(t) /\ SubSeq(t, i, j) = ReplacementCharacter
          THEN <<ReplacementCharacter>> \o CharactersFrom(t, j + 1)
          ELSE <<SubSeq(t, i, i)>> \o CharactersFrom(t, i + 1)

\* The characters of a text (iterating over a str).
Characters(t) == CharactersFrom(t, 1)

RECURSIVE SplitFrom(_, _, _)
\* str.split(separator) of a sequence of characters, current being the
\* piece read so far: n separators give n + 1 pieces.
SplitFrom(chars, separator, current) ==
  IF chars = <<>> THEN <<current>>
  ELSE IF Head(chars) = separator
       THEN <<current>> \o SplitFrom(Tail(chars), separator, "")
       ELSE SplitFrom(Tail(chars), separator, current \o Head(chars))

Split(chars, separator) == SplitFrom(chars, separator, "")

RECURSIVE Join(_, _)
\* separator.join(texts)
Join(texts, separator) ==
  IF texts = <<>> THEN ""
  ELSE IF Len(texts) = 1 THEN texts[1]
  ELSE texts[1] \o separator \o Join(Tail(texts), separator)

\* SortedItems without the sort: the items in insertion order.
SortedItems_Unsorted(field_values) == [ok |-> TRUE, list |-> field_values]

\* sorted(field_values.items())
SortedItems(field_values) == PySorted(field_values)

\* '  {{{0!s}}} {1!s}'.format(field_name, field_value)
FieldString(field_name, field_value) ==
  "  {" \o field_name \o "} " \o Str(field_value)

RECURSIVE AttributeLines(_, _, _)
\* reserved_attributes (reserved = TRUE) or additional_attributes
\* (reserved = FALSE) after the loop over the sorted items, reserved_names
\* being the value of definitions.RESERVED_VARIABLE_NAMES.
AttributeLines(items, reserved_names, reserved) ==
  IF items = <<>> THEN <<>>
  ELSE LET field_name == Head(items)[1]
           rest == AttributeLines(Tail(items), reserved_names, reserved)
       IN IF field_name \in StructuralKeys THEN rest
          ELSE IF (field_name \in reserved_names) = reserved
               THEN <<FieldString(field_name, Head(items)[2])>> \o rest
               ELSE rest

\* The [Timestamp] lines; '{0:s}' formats a str only.
TimestampLines(field_values) ==
  LET v == DictGet(field_values, "_timestamp")
  IN IF v.kind # "str" THEN [raised |-> TRUE, lines |-> <<>>]
     ELSE [raised |-> FALSE,
           lines |-> <<Repeat("+-", 40), "[Timestamp]:", "  " \o v.s>>]

\* lines_of_text.pop()
Pop(lines) == SubSeq(lines, 1, Len(lines) - 1)

\* The [Pathspec] section appended to lines; reading .comparable raises
\* for a value that is no path specification.
PathSpecLines(lines, field_values) ==
  LET path_specification == DictGetOrNone(field_values, "path_spec")
  IN IF ~Truthy(path_specification) THEN [raised |-> FALSE, lines |-> lines]
     ELSE IF path_specification.kind # "pathspec"
     THEN [raised |-> TRUE, lines |-> <<>>]
     ELSE LET pieces == Split(path_specification.items, "\n")
              body == [i \in 1..Len(pieces) |-> "  " \o pieces[i]]
          IN [raised |-> FALSE,
              lines |-> Pop(lines \o <<"", "[Pathspec]:">> \o body)]

RECURSIVE QuotedLabels(_)
\* ['\'{0:s}\''.format(label) for label in event_tag_labels]
QuotedLabels(labels) ==
  IF labels = <<>> THEN <<>>
  ELSE <<"'" \o Head(labels) \o "'">> \o QuotedLabels(Tail(labels))

\* The [Tag] section; iterating raises for a value that is no list or
\* str, '{0:s}' raises for a label that is no str.
TagLines(field_values) ==
  LET event_tag_labels == DictGetOrNone(field_values, "_event_tag_labels")
      labels == IF event_tag_labels.kind = "str"
                THEN Characters(event_tag_labels.s)
                ELSE event_tag_labels.items
  IN IF ~Truthy(event_tag_labels) THEN [raised |-> FALSE, lines |-> <<>>]
     ELSE IF \/ event_tag_labels.kind \notin {"list", "str"}
             \/ \E i \in 1..Len(labels) : labels[i] = DateTimeElement
     THEN [raised |-> TRUE, lines |-> <<>>]
     ELSE [raised |-> FALSE,
           lines |-> <<"", "[Tag]:",
                       "  {labels} [" \o Join(QuotedLabels(labels), ", ") \o "]">>]

\* The whole method: [raised, lines_of_text, output_text].
WriteFieldValuesResult(field_values, reserved_names) ==
  LET items == SortedItems(field_values).list
      reserved_attributes == AttributeLines(items, reserved_names, TRUE)
      additional_attributes == AttributeLines(items, reserved_names, FALSE)
      head == TimestampLines(field_values)
      path == PathSpecLines(head.lines, field_values)
      tag == TagLines(field_values)
      lines_of_text ==
        path.lines \o <<"", "[Reserved attributes]:">> \o reserved_attributes
          \o <<"", "[Additional attributes]:">> \o additional_attributes
          \o tag.lines \o <<"">>
  IN IF head.raised \/ path.raised \/ tag.raised
     THEN [raised |-> TRUE, lines_of_text |-> <<>>, output_text |-> ""]
     ELSE [raised |-> FALSE, lines_of_text |-> lines_of_text,
           output_text |-> Join(lines_of_text, "\n")]

---------------------------------------------------------------------------
\* The events the output module is given

\* A path specification's comparable string, in pieces (a newline is a
\* piece of its own), with and without the newline at its end.
ComparableWithNewline == <<"type: OS", "\n", "location: /a", "\n">>

ComparableWithoutNewline == <<"type: OS", "\n", "location: /a">>

\* The (name, value) pairs an attribute container may yield.
AttributePairs ==
  { <<"_event_tag_labels", IntValue(1)>>,
    <<"_event_tag_labels", StrValue("ok")>>,
    <<"_timestamp", StrValue("x")>>,
    <<"_timestamp", IntValue(1)>>,
    <<"display_name", StrValue("x")>>,
    <<"filename", StrValue("x")>>,
    <<"filename", DateTimeValue(0)>>,
    <<"inode", IntValue(1)>>,
    <<"inode", IntValue(2)>>,
    <<"name_attr", StrValue("x")>>,
    <<"name_attr", BytesValue(<<111, 107>>)>>,
    <<"name_attr", BytesValue(<<111, 255>>)>>,
    <<"name_attr", ListValue(<<>>)>>,
    <<"name_attr", ListValue(<<"x">>)>>,
    <<"name_attr", ListValue(<<DateTimeElement>>)>>,
    <<"name_attr", IdentifierValue("event_data_stream.1")>>,
    <<"path_spec", PathSpecValue(ComparableWithNewline)>>,
    <<"path_spec", PathSpecValue(ComparableWithoutNewline)>>,
    <<"path_spec", StrValue("x")>>,
    <<"size", IntValue(1)>> }

\* What one container's GetAttributes may yield: k pairs in any order, no
\* name twice (the attributes of a container are its object attributes).
AttributeLists ==
  [k \in 0..MaxAttributes |->
    {a \in [1..k -> AttributePairs] :
       \A i, j \in 1..k : i # j => a[i][1] # a[j][1]}]

\* The two events of the model; the first has no tag, the second has one.
Events ==
  { [identifier |-> [name |-> "event", sequence_number |-> 1], timestamp |-> 0],
    [identifier |-> [name |-> "event", sequence_number |-> 2],
     timestamp |-> 61000001] }

EventTags ==
  { [present |-> FALSE, labels |-> <<>>],
    [present |-> TRUE, labels |-> <<"a", "b">>] }

\* What GetFormattedField returns for each of the three names.
FormattedFields ==
  { [name \in {"display_name", "filename", "inode"} |-> ""],
    [display_name |-> "OS:/a", filename |-> "/a", inode |-> "-"] }

\* The values definitions.RESERVED_VARIABLE_NAMES may have.  The set is
\* fixed by the host and is no part of the output module: the module is
\* checked with no name of the model reserved and with the three names
\* GetFieldValues resolves reserved.
ReservedNameSets == { {}, {"display_name", "filename", "inode"} }

---------------------------------------------------------------------------
\* The state machine: one event is collected, then written

VARIABLES
  event,              \* the EventObject
  event_data,         \* [data_type, attributes]
  event_data_stream,  \* [present, attributes]
  event_tag,          \* [present, labels]
  formatted_fields,   \* the results of GetFormattedField per name
  RESERVED_VARIABLE_NAMES,  \* definitions.RESERVED_VARIABLE_NAMES
  pc,                 \* "event", "collected", "written" or "raised"
  field_values,       \* the dict GetFieldValues returned
  warnings,           \* the logger.warning calls, in order
  formatted,          \* the names GetFormattedField was called for, in order
  lines_of_text,      \* the lines of the report written
  output              \* the texts passed to WriteLine, in order

vars ==
  << event, event_data, event_data_stream, event_tag, formatted_fields,
     RESERVED_VARIABLE_NAMES, pc, field_values, warnings, formatted,
     lines_of_text, output >>

inputs ==
  << event, event_data, event_data_stream, event_tag, formatted_fields,
     RESERVED_VARIABLE_NAMES >>

Init ==
  /\ event \in Events
  /\ event_tag \in EventTags
  /\ event_tag.present = (event.identifier.sequence_number = 2)
  /\ formatted_fields \in FormattedFields
  /\ RESERVED_VARIABLE_NAMES \in ReservedNameSets
  /\ \E k \in 0..MaxAttributes : \E j \in 0..(MaxAttributes - k) :
       /\ event_data \in
            {[data_type |-> "test:event", attributes |-> a] :
               a \in AttributeLists[k]}
       /\ event_data_stream \in
            {[present |-> p, attributes |-> a] :
               p \in (IF j = 0 THEN BOOLEAN ELSE {TRUE}),
               a \in AttributeLists[j]}
  /\ pc = "event"
  /\ field_values = <<>>
  /\ warnings = <<>>
  /\ formatted = <<>>
  /\ lines_of_text = <<>>
  /\ output = <<>>

\* GetFieldValues(output_mediator, event, event_data, event_data_stream,
\* event_tag) returns the field values or raises.
GetFieldValues ==
  /\ pc = "event"
  /\ LET r == GetFieldValuesResult(event, event_data, event_data_stream,
                                   event_tag, formatted_fields)
     IN /\ pc' = IF r.raised THEN "raised" ELSE "collected"
        /\ field_values' = r.field_values
        /\ warnings' = r.warnings
        /\ formatted' = r.formatted
  /\ UNCHANGED <<inputs, lines_of_text, output>>

\* WriteFieldValues(output_mediator, field_values) writes the report or
\* raises.
WriteFieldValues ==
  /\ pc = "collected"
  /\ LET r == WriteFieldValuesResult(field_values, RESERVED_VARIABLE_NAMES)
     IN /\ pc' = IF r.raised THEN "raised" ELSE "written"
        /\ lines_of_text' = r.lines_of_text
        /\ output' = IF r.raised THEN output ELSE Append(output, r.output_text)
  /\ UNCHANGED <<inputs, field_values, warnings, formatted>>

Next == GetFieldValues \/ WriteFieldValues

Spec == Init /\ [][Next]_vars

\* The pairs of the events whose yield order is examined: four names, three
\* of them with values that collide when both containers yield the name.
OrderPairs ==
  { <<"filename", StrValue("x")>>,
    <<"filename", DateTimeValue(0)>>,
    <<"inode", IntValue(1)>>,
    <<"inode", IntValue(2)>>,
    <<"name_attr", StrValue("x")>>,
    <<"name_attr", BytesValue(<<111, 255>>)>>,
    <<"name_attr", IdentifierValue("event_data_stream.1")>>,
    <<"size", IntValue(1)>> }

\* What one container's GetAttributes may yield of OrderPairs: k pairs in
\* any order, no name twice.
OrderLists ==
  [k \in 0..MaxOrderAttributes |->
    {a \in [1..k -> OrderPairs] :
       \A i, j \in 1..k : i # j => a[i][1] # a[j][1]}]

\* Events of up to MaxOrderAttributes pairs in all, so that a container
\* yields several pairs while the other yields one of the same names.
InitOrder ==
  /\ event \in Events
  /\ event_tag \in EventTags
  /\ event_tag.present = (event.identifier.sequence_number = 2)
  /\ formatted_fields \in FormattedFields
  /\ RESERVED_VARIABLE_NAMES \in ReservedNameSets
  /\ \E k \in 0..MaxOrderAttributes : \E j \in 0..(MaxOrderAttributes - k) :
       /\ event_data \in
            {[data_type |-> "test:event", attributes |-> a] :
               a \in OrderLists[k]}
       /\ event_data_stream \in
            {[present |-> TRUE, attributes |-> a] : a \in OrderLists[j]}
  /\ pc = "event"
  /\ field_values = <<>>
  /\ warnings = <<>>
  /\ formatted = <<>>
  /\ lines_of_text = <<>>
  /\ output = <<>>

SpecOrder == InitOrder /\ [][Next]_vars

---------------------------------------------------------------------------
\* Properties

\* The pairs the two containers yielded for the event.
RawAttributes == EventAttributes(event_data, event_data_stream)

RawValues(name) ==
  {RawAttributes[i][2] : i \in {j \in 1..Len(RawAttributes) :
                                   RawAttributes[j][1] = name}}

\* GetFieldValues returned (the dict it returns is never empty).
Returned == field_values # <<>>

\* An identifier-typed or timestamp-like value, or a non-empty sequence
\* whose first element is timestamp-like.
Excluded(v) ==
  \/ v.kind = "identifier"
  \/ v.kind = "datetime"
  \/ v.kind = "list" /\ Len(v.items) > 0 /\ Head(v.items) = DateTimeElement

\* The value a raw value is displayed as: bytes as their decoded text.
Displayed(v) ==
  IF v.kind = "bytes" THEN StrValue(DecodeUTF8Replace(v.b)) ELSE v

DisplayedValues(name) ==
  {Displayed(v) : v \in {w \in RawValues(name) : ~Excluded(w)}}

\* How many times GetFormattedField was called for name.
TimesFormatted(name) ==
  Cardinality({i \in 1..Len(formatted) : formatted[i] = name})

ThreeNames == {"display_name", "filename", "inode"}

\* C1 as stated: for each of display_name, filename and inode, a name
\* present among the raw attributes (whatever its value kind) is never
\* resolved with GetFormattedField and keeps its raw value, and a name
\* absent from the raw attributes is resolved exactly once.
C1_RawNameNeverResolved ==
  Returned =>
    \A name \in ThreeNames :
      IF RawValues(name) # {}
      THEN /\ TimesFormatted(name) = 0
           /\ DictGet(field_values, name) \in
                {Displayed(v) : v \in RawValues(name)}
      ELSE TimesFormatted(name) = 1

\* C1 amended: for each of display_name, filename and inode, if a raw
\* attribute of that name has a value that is not excluded (identifier,
\* timestamp-like, sequence starting with a timestamp-like value), then
\* GetFormattedField is never called for the name and the dict holds the
\* value of such an attribute; otherwise (the name is absent or all its
\* values are excluded) GetFormattedField is called exactly once for the
\* name and the dict holds what it returned.
C1_StoredNameNeverResolved ==
  Returned =>
    \A name \in ThreeNames :
      IF DisplayedValues(name) # {}
      THEN /\ TimesFormatted(name) = 0
           /\ DictGet(field_values, name) \in DisplayedValues(name)
      ELSE /\ TimesFormatted(name) = 1
           /\ DictGet(field_values, name) = StrValue(formatted_fields[name])

\* A filename attribute with a timestamp-like value was yielded and
\* GetFormattedField was called for filename, while inode was stored from
\* its raw value.
C1_Witness ==
  /\ Returned
  /\ DateTimeValue(0) \in RawValues("filename")
  /\ TimesFormatted("filename") = 1
  /\ RawValues("inode") # {}
  /\ TimesFormatted("inode") = 0

\* C2 as stated: when EventData and EventDataStream both carry an
\* attribute of the same name with displayable values, the dict holds the
\* EventDataStream's value.
C2_StreamValueWins ==
  Returned /\ event_data_stream.present =>
    \A i \in 1..Len(event_data.attributes) :
      \A j \in 1..Len(event_data_stream.attributes) :
        LET p == event_data.attributes[i]
            q == event_data_stream.attributes[j]
        IN p[1] = q[1] /\ ~Excluded(p[2]) /\ ~Excluded(q[2])
             /\ p[1] # "_event_tag_labels"
             => DictGet(field_values, p[1]) = Displayed(q[2])

\* C3 as stated: whatever the attributes are, neither GetFieldValues nor
\* WriteFieldValues raises.
C3_NeverRaises == pc # "raised"

RawNames == {RawAttributes[i][1] : i \in 1..Len(RawAttributes)}

\* The keys GetFieldValues sets by itself.
OwnKeys ==
  {"_event_identifier", "_timestamp", "_event_tag_labels"} \cup ThreeNames

\* C4: a raw attribute whose value is identifier-typed, timestamp-like or
\* a non-empty sequence starting with a timestamp-like value is never
\* stored in the dict GetFieldValues returns and has no line in the report;
\* an attribute of any other value kind is stored under its name (the dict
\* then holds for that name the displayed value of such an attribute, or
\* the labels of the tag under _event_tag_labels).
C4_ExcludedNeverStored ==
  Returned =>
    /\ \A i \in 1..Len(field_values) : ~Excluded(field_values[i][2])
    /\ \A name \in RawNames :
         IF DisplayedValues(name) = {}
         THEN name \notin OwnKeys => ~DictHas(field_values, name)
         ELSE /\ DictHas(field_values, name)
              /\ \/ DictGet(field_values, name) \in DisplayedValues(name)
                 \/ /\ name = "_event_tag_labels"
                    /\ event_tag.present
                    /\ DictGet(field_values, name) = ListValue(event_tag.labels)
    /\ pc = "written" =>
         \A i \in 1..Len(RawAttributes) :
           Excluded(RawAttributes[i][2]) =>
             \A l \in 1..Len(lines_of_text) :
               lines_of_text[l] #
                 "  {" \o RawAttributes[i][1] \o "} " \o Str(RawAttributes[i][2])

\* The report of an event was written whose name_attr attribute carries a
\* sequence starting with a timestamp-like value in one container and an
\* empty sequence in the other.
C4_Witness ==
  /\ pc = "written"
  /\ ListValue(<<DateTimeElement>>) \in RawValues("name_attr")
  /\ ListValue(<<>>) \in RawValues("name_attr")
  /\ DictGet(field_values, "name_attr") = ListValue(<<>>)

\* The orders in which a container may yield the pairs of a.
YieldOrders(a) ==
  {[i \in 1..Len(a) |-> a[f[i]]] :
     f \in {g \in [1..Len(a) -> 1..Len(a)] :
              \A i, j \in 1..Len(a) : i # j => g[i] # g[j]}}

\* GetFieldValues has just returned or raised.
AfterGetFieldValues == pc = "collected" \/ (pc = "raised" /\ ~Returned)

\* C5: the outcome of GetFieldValues (the dict it returns, keys in
\* insertion order, and whether it raises), and hence the report written
\* from the dict, is the same for every order in which EventData and
\* EventDataStream yield their pairs.
C5_OrderIndependent ==
  AfterGetFieldValues =>
    \A a \in YieldOrders(event_data.attributes) :
      \A s \in YieldOrders(event_data_stream.attributes) :
        LET r == GetFieldValuesResult(
                   event, [event_data EXCEPT !.attributes = a],
                   [event_data_stream EXCEPT !.attributes = s], event_tag,
                   formatted_fields)
        IN /\ r.raised = ~Returned
           /\ r.field_values = field_values
           /\ r.warnings = warnings

\* EventData yielded size before inode, EventDataStream yielded inode too
\* with another value, and GetFieldValues returned a dict that holds both
\* names.
C5_Witness ==
  /\ pc = "collected"
  /\ Len(event_data.attributes) = 2
  /\ event_data.attributes[1][1] = "size"
  /\ event_data.attributes[2][1] = "inode"
  /\ \E i \in 1..Len(event_data_stream.attributes) :
       /\ event_data_stream.attributes[i][1] = "inode"
       /\ event_data_stream.attributes[i][2] # event_data.attributes[2][2]
  /\ DictHas(field_values, "size")
  /\ DictHas(field_values, "inode")

\* The pairs whose value is a byte sequence that is not valid UTF-8.
InvalidBytesIndexes ==
  {i \in 1..Len(RawAttributes) :
     /\ RawAttributes[i][2].kind = "bytes"
     /\ ~IsValidUTF8(RawAttributes[i][2].b)}

\* The warnings logged for pair p.
WarningsFor(p) ==
  {j \in 1..Len(warnings) :
     /\ warnings[j].attribute_name = p[1]
     /\ warnings[j].data_type = event_data.data_type}

\* C6 as stated: once GetFieldValues has run, every attribute whose value
\* is a byte sequence that is not valid UTF-8 is in the dict as text
\* decoded with replacement (the dict holds no bytes), has logged exactly
\* one warning (one for each container that yields it), and has not
\* stopped the processing: GetFieldValues
\* returned and the other attributes it stores are in the dict; and an
\* attribute whose name carries no byte sequence has logged no warning.
C6_BytesDecodedWithOneWarning ==
  pc # "event" =>
    /\ \A i \in InvalidBytesIndexes :
         LET p == RawAttributes[i]
         IN /\ Returned
            /\ DictHas(field_values, p[1])
            /\ DictGet(field_values, p[1]).kind # "bytes"
            /\ RawValues(p[1]) = {p[2]} =>
                 DictGet(field_values, p[1])
                   = StrValue(DecodeUTF8Replace(p[2].b))
            /\ Cardinality(WarningsFor(p))
                 = Cardinality({k \in 1..Len(RawAttributes) :
                      /\ RawAttributes[k][1] = p[1]
                      /\ RawAttributes[k][2].kind = "bytes"})
            /\ \A k \in 1..Len(RawAttributes) :
                 ~Excluded(RawAttributes[k][2]) =>
                   DictHas(field_values, RawAttributes[k][1])
    /\ \A i \in 1..Len(RawAttributes) :
         (\A v \in RawValues(RawAttributes[i][1]) : v.kind # "bytes")
           => WarningsFor(RawAttributes[i]) = {}

\* Position of the first line of lines that equals text (0 when none).
LineIndex(lines, text) ==
  IF \E i \in 1..Len(lines) : lines[i] = text
  THEN CHOOSE i \in 1..Len(lines) :
         lines[i] = text /\ \A j \in 1..(i - 1) : lines[j] # text
  ELSE 0

ReservedHeader == LineIndex(lines_of_text, "[Reserved attributes]:")

AdditionalHeader == LineIndex(lines_of_text, "[Additional attributes]:")

\* The event of the end-to-end example: EventData yields exactly size and
\* name_attr (in either order), neither of them a reserved name, there is
\* no EventDataStream and no tag, and GetFormattedField returns empty
\* strings only.
C7_Example ==
  /\ event_data.attributes \in
       YieldOrders(<< <<"size", IntValue(1)>>, <<"name_attr", StrValue("x")>> >>)
  /\ {"size", "name_attr"} \cap RESERVED_VARIABLE_NAMES = {}
  /\ ~event_data_stream.present
  /\ ~event_tag.present
  /\ \A name \in ThreeNames : formatted_fields[name] = ""

\* C7 as stated: the report of the example has no attribute line between
\* the [Reserved attributes] header and the [Additional attributes] header,
\* and lists name_attr before size under [Additional attributes].
C7_ReservedSectionEmpty ==
  pc = "written" /\ C7_Example =>
    /\ ReservedHeader > 0 /\ AdditionalHeader > ReservedHeader
    /\ \A i \in (ReservedHeader + 1)..(AdditionalHeader - 1) :
         lines_of_text[i] = ""
    /\ \E i, j \in (AdditionalHeader + 1)..Len(lines_of_text) :
         /\ i < j
         /\ lines_of_text[i] = "  {name_attr} x"
         /\ lines_of_text[j] = "  {size} 1"

\* The [Timestamp] line of the two events of the model.
ExpectedTimestampLine ==
  IF event.timestamp = 0 THEN "  1970-01-01T00:00:00.000000+00:00"
  ELSE "  1970-01-01T00:01:01.000001+00:00"

\* The lines '  {name} ' of those of names, kept in order, that are
\* (reserved = TRUE) or are not (reserved = FALSE) reserved names.
EmptyFieldLines(names, reserved) ==
  LET kept == SelectSeq(names,
                LAMBDA name : (name \in RESERVED_VARIABLE_NAMES) = reserved)
  IN [i \in 1..Len(kept) |-> "  {" \o kept[i] \o "} "]

\* C7 amended: the dict of the example also holds display_name, filename
\* and inode, each with the empty string GetFormattedField returned.  The
\* report lists under [Reserved attributes] those of the three that are
\* reserved names, so that section is empty only when none of them is
\* reserved, and under [Additional attributes] the others of the three
\* and then name_attr before size; the whole report is the lines below.
C7_ReservedSectionHoldsResolvedFields ==
  pc = "written" /\ C7_Example =>
    lines_of_text =
      << "+-+-+-+-+-+-+-+-+-+-+-+-+-+-+-+-+-+-+-+-+-+-+-+-+-+-+-+-+-+-+-+-+-+-+-+-+-+-+-+-",
         "[Timestamp]:",
         ExpectedTimestampLine,
         "",
         "[Reserved attributes]:" >>
      \o EmptyFieldLines(<<"display_name", "filename", "inode">>, TRUE)
      \o << "", "[Additional attributes]:" >>
      \o EmptyFieldLines(<<"display_name", "filename", "inode">>, FALSE)
      \o << "  {name_attr} x", "  {size} 1", "" >>

\* The report of the example was written with inode a reserved name,
\* EventData having yielded size before name_attr.
C7_Witness ==
  /\ pc = "written"
  /\ C7_Example
  /\ "inode" \in RESERVED_VARIABLE_NAMES
  /\ event_data.attributes[1][1] = "size"
  /\ Len(output) = 1

\* The fields of the dict that get a line: all but the four structural
\* keys.
ListedKeys == DictKeys(field_values) \ StructuralKeys

\* The lines after the [Reserved attributes] header that render field key.
FieldLines(key) ==
  {i \in (ReservedHeader + 1)..Len(lines_of_text) :
     lines_of_text[i]
       = "  {" \o key \o "} " \o Str(DictGet(field_values, key))}

InReservedSection(i) == ReservedHeader < i /\ i < AdditionalHeader

\* C8: in the report every field of the dict other than the four
\* structural keys has exactly one line, under [Reserved attributes] iff
\* its name is a reserved name and under [Additional attributes]
\* otherwise; the two sections hold no other lines; and of two fields of
\* the same section the one with the smaller name comes first, whatever
\* the insertion order of the dict.
C8_SectionsSortedAndComplete ==
  pc = "written" =>
    /\ ReservedHeader > 0 /\ AdditionalHeader > ReservedHeader
    /\ \A key \in ListedKeys :
         /\ Cardinality(FieldLines(key)) = 1
         /\ \A i \in FieldLines(key) :
              IF key \in RESERVED_VARIABLE_NAMES
              THEN InReservedSection(i)
              ELSE i > AdditionalHeader
    /\ AdditionalHeader - ReservedHeader - 2
         = Cardinality(ListedKeys \cap RESERVED_VARIABLE_NAMES)
    /\ Len(lines_of_text) - AdditionalHeader - 1
           - (IF LineIndex(lines_of_text, "[Tag]:") > 0 THEN 3 ELSE 0)
         = Cardinality(ListedKeys \ RESERVED_VARIABLE_NAMES)
    /\ \A k1, k2 \in ListedKeys :
         /\ TextLess(k1, k2)
         /\ (k1 \in RESERVED_VARIABLE_NAMES) = (k2 \in RESERVED_VARIABLE_NAMES)
         => \A i \in FieldLines(k1) : \A j \in FieldLines(k2) : i < j

\* A report was written from a dict in which inode, stored from a raw
\* attribute, was inserted before the resolved display_name, and which
\* holds an additional field.
C8_Witness ==
  /\ pc = "written"
  /\ DictIndex(field_values, "inode") < DictIndex(field_values, "display_name")
  /\ DictHas(field_values, "size")

NonEmptyLine(line) == line # ""

\* C9 as stated: when the dict holds a path specification, the lines
\* after the [Pathspec] header are the non-empty lines of its comparable
\* string, in order and each indented by two spaces, followed by exactly
\* one blank line and the [Reserved attributes] header, whether or not the
\* comparable string ends with a newline.
C9_PathspecKeepsEveryLine ==
  pc = "written" /\ DictGetOrNone(field_values, "path_spec").kind = "pathspec"
  => LET h == LineIndex(lines_of_text, "[Pathspec]:")
         content == SelectSeq(
                      Split(DictGet(field_values, "path_spec").items, "\n"),
                      NonEmptyLine)
         n == Len(content)
     IN /\ h > 0
        /\ Len(lines_of_text) >= h + n + 2
        /\ \A i \in 1..n : lines_of_text[h + i] = "  " \o content[i]
        /\ lines_of_text[h + n + 1] = ""
        /\ lines_of_text[h + n + 2] = "[Reserved attributes]:"

\* C10 as stated: after GetFieldValues the dict's _timestamp is the
\* ISO 8601 string of the event's timestamp, _event_identifier is the
\* event's identifier string, _event_tag_labels is present only when a
\* tag was supplied, and the [Timestamp] section shows the event's
\* timestamp, whatever the raw attributes are.
C10_InternalKeysNeverOverwritten ==
  Returned =>
    /\ DictGet(field_values, "_timestamp")
         = StrValue(CopyToDateTimeStringISO8601(event.timestamp))
    /\ DictGet(field_values, "_event_identifier")
         = StrValue(CopyToString(event.identifier))
    /\ DictHas(field_values, "_event_tag_labels") <=> event_tag.present
    /\ pc = "written" => lines_of_text[3] = ExpectedTimestampLine

====
